---- MODULE Spec2Model ----
(***************************************************************************)
(* Model of the datagotchi storage backend: the Knowledge entity rule      *)
(* (services/storage/schemas.py) and the storage routes                    *)
(* (routes/storage.py).  The Supabase gateway class the routes call        *)
(* (services/storage/supabase.py) is modelled from its specification.      *)
(*                                                                         *)
(* Optional values (Python None / a value) are sequences of length 0 / 1.  *)
(* A text is a sequence of characters.                                     *)
(***************************************************************************)
EXTENDS Integers, Sequences, FiniteSets, TLC

None == <<>>
Some(v) == <<v>>
IsNone(o) == o = None
Val(o) == o[1]

\* ---------------------------------------------------------------- bounds
\* longest content text drawn for the Knowledge construction check
MaxLen == 3
\* worker threads that may run get_storage at once, and calls they make in all
NThreads == 2
MaxCalls == 3
\* longest knowledge_list / image_urls of a payload, write requests in one run
MaxBatch == 2
MaxImages == 1
MaxWrites == 1
\* most DataInstance rows in a store that is paged through
MaxListed == 4
\* most Knowledge rows in a store that is searched
MaxRows == 3

\* ------------------------------------------------------ program constants
ListLimitGe == 1
ListLimitLe == 1000
OffsetGe == 0
SearchLimitGe == 1
SearchLimitLe == 100
ThresholdGe == 0
ThresholdLe == 10
DefaultThreshold == 7

\* ------------------------------------------------------------- characters
Whitespace == {" ", "\t"}
Chars == Whitespace \cup {"a"}

\* texts of length 0..n over Chars
RECURSIVE Texts(_)
Texts(n) == IF n = 0 THEN {<<>>}
            ELSE LET shorter == Texts(n - 1)
                 IN shorter \cup {Append(t, c) : t \in {s \in shorter : Len(s) = n - 1}, c \in Chars}

\* str.strip(): drop leading and trailing whitespace
RECURSIVE LStrip(_)
LStrip(s) == IF s # <<>> /\ Head(s) \in Whitespace THEN LStrip(Tail(s)) ELSE s

RECURSIVE RStrip(_)
RStrip(s) == IF s # <<>> /\ s[Len(s)] \in Whitespace
             THEN RStrip(SubSeq(s, 1, Len(s) - 1)) ELSE s

Strip(s) == RStrip(LStrip(s))

\* Python truthiness of an Optional[str]: None and "" are falsy
FalsyUrl(u) == IsNone(u) \/ Val(u) = ""
FalsyText(c) == IsNone(c) \/ Val(c) = <<>>

\* Knowledge.__post_init__: TRUE when it raises ValueError
KnowledgeRaisesNoStrip(url, content) == FalsyUrl(url) /\ FalsyText(content)

KnowledgeRaises(url, content) ==
    FalsyUrl(url) /\ (FalsyText(content) \/ Strip(Val(content)) = <<>>)

VARIABLES
    kUrl, kContent, kResult,    \* one Knowledge construction attempt
    environ,                    \* os.environ: SUPABASE_URL, SUPABASE_KEY
    instance,                   \* get_storage._instance (None: attribute not set)
    constructed,                \* number of Supabase(...) constructor runs
    firstInstance,              \* the first handle ever cached
    thread,                     \* per worker thread: position in get_storage and its locals
    calls,                      \* get_storage calls started so far
    dataInstances,              \* committed DataInstance rows, in creation order
    knowledge,                  \* committed Knowledge rows
    images,                     \* committed Image rows
    create,                     \* the create_datainstance request in flight
    addk,                       \* the add_knowledge request in flight
    writes,                     \* write requests started so far (the next call number)
    resp                        \* the response a read request has just produced

kvars == <<kUrl, kContent, kResult>>
gvars == <<environ, instance, constructed, firstInstance, thread, calls>>
store == <<dataInstances, knowledge, images>>
svars == <<dataInstances, knowledge, images, create, addk, writes, resp>>
vars == <<kvars, gvars, svars>>

KIdle == /\ kUrl = None
         /\ kContent = None
         /\ kResult = "idle"

NoResp == [op |-> "none"]
CreateIdle == [pc |-> "idle", call |-> 0, pet_id |-> "", payload |-> <<>>,
               knowledge_list |-> None, image_urls |-> None, i |-> 1, instance |-> None,
               stagedK |-> <<>>, stagedI |-> <<>>, status |-> 0, before |-> <<>>]
AddkIdle == [pc |-> "idle", call |-> 0, datainstance_id |-> 0, payload |-> <<>>,
             knowledge_data |-> <<>>, i |-> 1, gateway_called |-> FALSE,
             stagedK |-> <<>>, status |-> 0]

SIdle == /\ dataInstances = <<>>
         /\ knowledge = <<>>
         /\ images = <<>>
         /\ create = CreateIdle
         /\ addk = AddkIdle
         /\ writes = 0
         /\ resp = NoResp

\* ------------------------------------------------------------ get_storage
\* get_storage is a plain `def` dependency of every route (Depends(get_storage)),
\* so the framework runs it on worker threads, one per request in flight.
Threads == 1..NThreads
EnvValues == {None, Some(""), Some("v")}

Falsy(v) == IsNone(v) \/ Val(v) = ""

OpenAiValues == {None, Some("k")}

ThreadIdle == [pc |-> "idle", url |-> None, key |-> None, openai_key |-> None,
               made |-> None, result |-> "none", ret |-> None]

\* a Supabase(url, key, openai_key) handle: the n-th one constructed
Supabase(n, openai_key) == [id |-> n, openai_key |-> openai_key]

GIdle == /\ environ = [SUPABASE_URL |-> None, SUPABASE_KEY |-> None, OPENAI_API_KEY |-> None]
         /\ instance = None
         /\ constructed = 0
         /\ firstInstance = None
         /\ thread = [t \in Threads |-> ThreadIdle]
         /\ calls = 0

GInit == /\ environ \in [SUPABASE_URL : EnvValues, SUPABASE_KEY : EnvValues,
                         OPENAI_API_KEY : OpenAiValues]
         /\ instance = None
         /\ constructed = 0
         /\ firstInstance = None
         /\ thread = [t \in Threads |-> ThreadIdle]
         /\ calls = 0
         /\ KIdle
         /\ SIdle

\* the process environment changes (os.environ is process-wide mutable state)
SetEnv(name, v) ==
    /\ environ[name] # v
    /\ environ' = [environ EXCEPT ![name] = v]
    /\ UNCHANGED <<instance, constructed, firstInstance, thread, calls, kvars, svars>>

\* a request arrives: the dependency starts on thread t
gs_call(t) ==
    /\ thread[t].pc \in {"idle", "done"}
    /\ calls < MaxCalls
    /\ calls' = calls + 1
    /\ thread' = [thread EXCEPT ![t] = [ThreadIdle EXCEPT !.pc = "getenv_url"]]
    /\ UNCHANGED <<environ, instance, constructed, firstInstance, kvars, svars>>

\* line 12: url = os.getenv("SUPABASE_URL")
gs_getenv_url(t) ==
    /\ thread[t].pc = "getenv_url"
    /\ thread' = [thread EXCEPT ![t].url = environ.SUPABASE_URL, ![t].pc = "getenv_key"]
    /\ UNCHANGED <<environ, instance, constructed, firstInstance, calls, kvars, svars>>

\* line 13: key = os.getenv("SUPABASE_KEY")
gs_getenv_key(t) ==
    /\ thread[t].pc = "getenv_key"
    /\ thread' = [thread EXCEPT ![t].key = environ.SUPABASE_KEY, ![t].pc = "getenv_openai"]
    /\ UNCHANGED <<environ, instance, constructed, firstInstance, calls, kvars, svars>>

\* line 14: openai_key = os.getenv("OPENAI_API_KEY")
gs_getenv_openai(t) ==
    /\ thread[t].pc = "getenv_openai"
    /\ thread' = [thread EXCEPT ![t].openai_key = environ.OPENAI_API_KEY, ![t].pc = "check_env"]
    /\ UNCHANGED <<environ, instance, constructed, firstInstance, calls, kvars, svars>>

\* lines 15-16: if not url or not key: raise RuntimeError
gs_check_env(t) ==
    /\ thread[t].pc = "check_env"
    /\ thread' = IF Falsy(thread[t].url) \/ Falsy(thread[t].key)
                 THEN [thread EXCEPT ![t].pc = "done", ![t].result = "RuntimeError"]
                 ELSE [thread EXCEPT ![t].pc = "hasattr"]
    /\ UNCHANGED <<environ, instance, constructed, firstInstance, calls, kvars, svars>>

\* line 19: if not hasattr(get_storage, "_instance")
gs_hasattr(t) ==
    /\ thread[t].pc = "hasattr"
    /\ thread' = [thread EXCEPT ![t].pc = IF IsNone(instance) THEN "construct" ELSE "return"]
    /\ UNCHANGED <<environ, instance, constructed, firstInstance, calls, kvars, svars>>

\* line 20, right-hand side: Supabase(url, key, openai_key)
gs_construct(t) ==
    /\ thread[t].pc = "construct"
    /\ constructed' = constructed + 1
    /\ thread' = [thread EXCEPT ![t].made = Some(Supabase(constructed + 1, thread[t].openai_key)),
                                 ![t].pc = "assign"]
    /\ UNCHANGED <<environ, instance, firstInstance, calls, kvars, svars>>

\* line 20, the store: get_storage._instance = <the new handle>
gs_assign(t) ==
    /\ thread[t].pc = "assign"
    /\ instance' = thread[t].made
    /\ firstInstance' = IF IsNone(firstInstance) THEN thread[t].made ELSE firstInstance
    /\ thread' = [thread EXCEPT ![t].pc = "return"]
    /\ UNCHANGED <<environ, constructed, calls, kvars, svars>>

\* line 21: return get_storage._instance
gs_return(t) ==
    /\ thread[t].pc = "return"
    /\ thread' = [thread EXCEPT ![t].pc = "done", ![t].result = "ok", ![t].ret = instance]
    /\ UNCHANGED <<environ, instance, constructed, firstInstance, calls, kvars, svars>>

get_storage(t) ==
    \/ gs_call(t)
    \/ gs_getenv_url(t)
    \/ gs_getenv_key(t)
    \/ gs_getenv_openai(t)
    \/ gs_check_env(t)
    \/ gs_hasattr(t)
    \/ gs_construct(t)
    \/ gs_assign(t)
    \/ gs_return(t)

GNext == \/ \E t \in Threads : get_storage(t)
         \/ \E name \in {"SUPABASE_URL", "SUPABASE_KEY"}, v \in EnvValues : SetEnv(name, v)
         \/ \E v \in OpenAiValues : SetEnv("OPENAI_API_KEY", v)

SpecStorage == GInit /\ [][GNext]_vars

\* ---------------------------------------------------------- request data
Pets == {"p1", "p2"}              \* the pets that exist in the store
PetIds == Pets \cup {"p0"}        \* identifiers a request may name; p0 does not exist

Min(a, b) == IF a < b THEN a ELSE b

\* sequences of length 0..n over S
RECURSIVE Lists(_, _)
Lists(S, n) == IF n = 0 THEN {<<>>}
               ELSE LET shorter == Lists(S, n - 1)
                    IN shorter \cup {Append(l, x) : l \in {m \in shorter : Len(m) = n - 1}, x \in S}

\* a parsed pydantic HttpUrl object, and str() of it
HttpUrl(href) == [href |-> href]
StrUrl(u) == u.href

\* KnowledgeCreate (url: Optional[HttpUrl], content: Optional[str])
KnowledgeCreate == {[url |-> None, content |-> None],
                    [url |-> None, content |-> Some(<<" ">>)],
                    [url |-> None, content |-> Some(<<"a">>)],
                    [url |-> Some(HttpUrl("http://x/")), content |-> None]}
\* create_datainstance hands its items to the gateway, where the Knowledge
\* constructor judges them (KnowledgeRaises, explored on its own under
\* SpecKnowledge): its lists draw on both failing items and the url item.
\* add_knowledge judges the items itself and draws on all of KnowledgeCreate.
CreateItems == KnowledgeCreate \ {[url |-> None, content |-> Some(<<"a">>)]}
KnowledgeLists == {None} \cup {Some(l) : l \in Lists(CreateItems, MaxBatch)}
ImageUrlLists == {None} \cup {Some(l) : l \in Lists({HttpUrl("http://x/i.png")}, MaxImages)}

\* lines 130-133 and 216-219: k.model_dump(), the url converted to a string when present
knowledge_dict_unguarded(k) ==
    [url |-> Some(IF IsNone(k.url) THEN "None" ELSE StrUrl(Val(k.url))), content |-> k.content]

knowledge_dict(k) ==
    [url |-> IF IsNone(k.url) THEN None ELSE Some(StrUrl(Val(k.url))), content |-> k.content]

\* lines 126-133: the list handed to the gateway; None when the payload has none or an empty one
convert_knowledge_list(kl) ==
    IF IsNone(kl) \/ Val(kl) = <<>> THEN None
    ELSE Some([i \in 1..Len(Val(kl)) |-> knowledge_dict(Val(kl)[i])])

\* line 140: [str(url) for url in payload.image_urls] if payload.image_urls else None
convert_image_urls(urls) ==
    IF IsNone(urls) \/ Val(urls) = <<>> THEN None
    ELSE Some([i \in 1..Len(Val(urls)) |-> StrUrl(Val(urls)[i])])

\* an Optional list as a list
ListOf(o) == IF IsNone(o) THEN <<>> ELSE Val(o)

\* ------------------------------------------------ the gateway's transaction
\* Rows a multi-row write has issued but not committed, and what a read of the
\* store sees of them: the write is one atomic unit, so nothing before commit.
StagedInstances == IF create.pc \in {"insert_knowledge", "insert_images", "commit"}
                   THEN <<create.instance>> ELSE <<>>
StagedKnowledge == (IF create.pc \in {"insert_knowledge", "insert_images", "commit"}
                    THEN create.stagedK ELSE <<>>)
                   \o (IF addk.pc \in {"bulk_insert", "bulk_commit"} THEN addk.stagedK ELSE <<>>)
StagedImages == IF create.pc \in {"insert_images", "commit"} THEN create.stagedI ELSE <<>>

ReadUncommitted(committed, staged) == committed \o staged

ReadCommitted(committed, staged) == committed

VisibleInstances == ReadCommitted(dataInstances, StagedInstances)
VisibleKnowledge == ReadCommitted(knowledge, StagedKnowledge)
VisibleImages == ReadCommitted(images, StagedImages)

\* ------------------------------------------------------- gateway: reads
KnowledgeOf(id) == LET Mine(r) == r.datainstance_id = id IN SelectSeq(VisibleKnowledge, Mine)
ImagesOf(id) == LET Mine(r) == r.datainstance_id = id IN SelectSeq(VisibleImages, Mine)

WithContent(row) == [id |-> row.id, pet_id |-> row.pet_id, call |-> row.call,
                     knowledge |-> KnowledgeOf(row.id), images |-> ImagesOf(row.id)]

get_pet(pet_id) == IF pet_id \in Pets THEN Some([id |-> pet_id]) ELSE None

get_datainstance_with_content(id) ==
    LET Mine(r) == r.id = id
        found == SelectSeq(VisibleInstances, Mine)
    IN IF found = <<>> THEN None ELSE Some(WithContent(found[1]))

InstancesOfPet(pet_id) == LET Mine(r) == r.pet_id = pet_id IN SelectSeq(VisibleInstances, Mine)

export_pet_data(pet_id) ==
    IF pet_id \notin Pets THEN None
    ELSE LET rows == InstancesOfPet(pet_id)
         IN Some([pet |-> [id |-> pet_id],
                  instances |-> [i \in 1..Len(rows) |-> WithContent(rows[i])]])

\* the ordering the paginated listing pages through: newest first
Reverse(s) == [i \in 1..Len(s) |-> s[Len(s) + 1 - i]]
PetOrder(pet_id) == Reverse(InstancesOfPet(pet_id))

Range(s, limit, offset) == SubSeq(s, offset + 1, Min(offset + limit, Len(s)))

get_pet_instances(pet_id, limit, offset) == Range(PetOrder(pet_id), limit, offset)

\* ------------------------------------------------------- routes: reads
\* lines 103-109
route_get_pet(pet_id) ==
    LET result == get_pet(pet_id)
    IN IF IsNone(result) THEN [status |-> 404, detail |-> "Pet not found", body |-> None]
       ELSE [status |-> 200, detail |-> "", body |-> result]

\* lines 112-118
route_export_pet_data_unchecked(pet_id) ==
    [status |-> 200, detail |-> "", body |-> export_pet_data(pet_id)]

route_export_pet_data(pet_id) ==
    LET result == export_pet_data(pet_id)
    IN IF IsNone(result) THEN [status |-> 404, detail |-> "Pet not found", body |-> None]
       ELSE [status |-> 200, detail |-> "", body |-> result]

\* lines 174-180
route_get_datainstance(id) ==
    LET result == get_datainstance_with_content(id)
    IN IF IsNone(result)
       THEN [status |-> 404, detail |-> "DataInstance not found", body |-> None]
       ELSE [status |-> 200, detail |-> "", body |-> result]

\* lines 150-158: limit: Query(100, ge=1, le=1000), offset: Query(0, ge=0)
route_list_pet_instances_swapped(pet_id, limit, offset) ==
    IF limit < ListLimitGe \/ limit > ListLimitLe \/ offset < OffsetGe
    THEN [status |-> 422, detail |-> "validation", body |-> None]
    ELSE [status |-> 200, detail |-> "", body |-> Some(get_pet_instances(pet_id, offset, limit))]

route_list_pet_instances(pet_id, limit, offset) ==
    IF limit < ListLimitGe \/ limit > ListLimitLe \/ offset < OffsetGe
    THEN [status |-> 422, detail |-> "validation", body |-> None]
    ELSE [status |-> 200, detail |-> "", body |-> Some(get_pet_instances(pet_id, limit, offset))]

Reply(op, arg, r) == [op |-> op, arg |-> arg, status |-> r.status, detail |-> r.detail,
                      body |-> r.body]

\* a read request: one read of the store, whatever the writers are doing
GetPet(pet_id) ==
    /\ resp = NoResp
    /\ resp' = Reply("get_pet", pet_id, route_get_pet(pet_id))
    /\ UNCHANGED <<store, create, addk, writes, kvars, gvars>>

ExportPetData(pet_id) ==
    /\ resp = NoResp
    /\ resp' = Reply("export_pet_data", pet_id, route_export_pet_data(pet_id))
    /\ UNCHANGED <<store, create, addk, writes, kvars, gvars>>

GetDataInstance(id) ==
    /\ resp = NoResp
    /\ resp' = Reply("get_datainstance", id, route_get_datainstance(id))
    /\ UNCHANGED <<store, create, addk, writes, kvars, gvars>>

ListPetInstances(pet_id, limit, offset) ==
    /\ resp = NoResp
    /\ resp' = Reply("list_pet_instances", <<pet_id, limit, offset>>,
                     route_list_pet_instances(pet_id, limit, offset))
    /\ UNCHANGED <<store, create, addk, writes, kvars, gvars>>

\* the response leaves the server
Respond ==
    /\ resp # NoResp
    /\ resp' = NoResp
    /\ UNCHANGED <<store, create, addk, writes, kvars, gvars>>

\* --------------------------------------------- POST /pets/{pet_id}/instances
\* lines 121, 145-147: 201 with the instance, or any exception as a 500
create_status(raised) == IF raised THEN 500 ELSE 201

InstanceIds(rows) == [i \in 1..Len(rows) |-> rows[i].id]

\* lines 122-144: the route converts the payload and calls the gateway once.
\* A route body is an `async def` that never awaits, so the process runs one
\* body at a time; what interleaves with it are the store's other readers.
\* The locals of the request that ran before are gone by then.
create_datainstance(pet_id, kl, urls) ==
    /\ resp = NoResp
    /\ create.pc \in {"idle", "done"}
    /\ addk.pc \in {"idle", "done"}
    /\ writes < MaxWrites
    /\ writes' = writes + 1
    /\ create' = [CreateIdle EXCEPT !.pc = "insert_instance", !.call = writes + 1,
                                    !.pet_id = pet_id, !.payload = ListOf(kl),
                                    !.knowledge_list = convert_knowledge_list(kl),
                                    !.image_urls = convert_image_urls(urls),
                                    !.before = InstanceIds(InstancesOfPet(pet_id))]
    /\ addk' = AddkIdle
    /\ UNCHANGED <<store, resp, kvars, gvars>>

\* create_complete_datainstance: the DataInstance row
ccd_insert_instance ==
    /\ resp = NoResp
    /\ create.pc = "insert_instance"
    /\ create' = [create EXCEPT !.pc = "insert_knowledge",
                    !.instance = [id |-> Len(dataInstances) + 1, pet_id |-> create.pet_id,
                                  call |-> create.call]]
    /\ UNCHANGED <<store, addk, writes, resp, kvars, gvars>>

\* create_complete_datainstance: one Knowledge row per entry, each validated by
\* constructing a Knowledge; an invalid entry fails the whole call and rolls it back
ccd_insert_knowledge ==
    /\ resp = NoResp
    /\ create.pc = "insert_knowledge"
    /\ LET kl == ListOf(create.knowledge_list)
           k == kl[create.i]
       IN create' =
            IF create.i > Len(kl) THEN [create EXCEPT !.pc = "insert_images", !.i = 1]
            ELSE IF KnowledgeRaises(k.url, k.content)
            THEN [create EXCEPT !.pc = "done", !.status = create_status(TRUE),
                                !.stagedK = <<>>, !.stagedI = <<>>]
            ELSE [create EXCEPT !.i = create.i + 1,
                    !.stagedK = Append(create.stagedK,
                                       [datainstance_id |-> create.instance.id, url |-> k.url,
                                        content |-> k.content, call |-> create.call])]
    /\ UNCHANGED <<store, addk, writes, resp, kvars, gvars>>

\* create_complete_datainstance: one Image row per url
ccd_insert_images ==
    /\ resp = NoResp
    /\ create.pc = "insert_images"
    /\ LET urls == ListOf(create.image_urls)
       IN create' =
            IF create.i > Len(urls) THEN [create EXCEPT !.pc = "commit"]
            ELSE [create EXCEPT !.i = create.i + 1,
                    !.stagedI = Append(create.stagedI,
                                       [datainstance_id |-> create.instance.id,
                                        image_url |-> urls[create.i], call |-> create.call])]
    /\ UNCHANGED <<store, addk, writes, resp, kvars, gvars>>

\* create_complete_datainstance: the unit commits; the route returns the instance
ccd_commit ==
    /\ resp = NoResp
    /\ create.pc = "commit"
    /\ dataInstances' = Append(dataInstances, create.instance)
    /\ knowledge' = knowledge \o create.stagedK
    /\ images' = images \o create.stagedI
    /\ create' = [create EXCEPT !.pc = "done", !.status = create_status(FALSE)]
    /\ UNCHANGED <<addk, writes, resp, kvars, gvars>>

\* ---------------------------------- POST /datainstances/{id}/knowledge
\* line 210: not k.url and (not k.content or k.content.strip() == "")
item_rejected_no_strip(k) == IsNone(k.url) /\ FalsyText(k.content)

item_rejected(k) == IsNone(k.url) /\ (FalsyText(k.content) \/ Strip(Val(k.content)) = <<>>)

\* lines 204-207: the request arrives for an existing DataInstance
add_knowledge(id, payload) ==
    /\ resp = NoResp
    /\ addk.pc \in {"idle", "done"}
    /\ create.pc \in {"idle", "done"}
    /\ writes < MaxWrites
    /\ \E n \in 1..Len(dataInstances) : dataInstances[n].id = id
    /\ writes' = writes + 1
    /\ addk' = [AddkIdle EXCEPT !.pc = "validate", !.call = writes + 1,
                                !.datainstance_id = id, !.payload = payload]
    /\ create' = CreateIdle
    /\ UNCHANGED <<store, resp, kvars, gvars>>

\* lines 208-219: one turn of the validation loop; lines 221-222 after the last
ak_validate ==
    /\ resp = NoResp
    /\ addk.pc = "validate"
    /\ LET k == addk.payload[addk.i]
       IN addk' =
            IF addk.i > Len(addk.payload)
            THEN [addk EXCEPT !.pc = "bulk_check", !.gateway_called = TRUE]
            ELSE IF item_rejected(k)
            THEN [addk EXCEPT !.pc = "done", !.status = 400]
            ELSE [addk EXCEPT !.i = addk.i + 1,
                              !.knowledge_data = Append(addk.knowledge_data, knowledge_dict(k))]
    /\ UNCHANGED <<store, create, writes, resp, kvars, gvars>>

\* bulk_add_knowledge: every item is validated before any row is written;
\* lines 224-225 turn its ValueError into a 400
bulk_check ==
    /\ resp = NoResp
    /\ addk.pc = "bulk_check"
    /\ addk' = IF \E n \in 1..Len(addk.knowledge_data) :
                     KnowledgeRaises(addk.knowledge_data[n].url, addk.knowledge_data[n].content)
               THEN [addk EXCEPT !.pc = "done", !.status = 400]
               ELSE [addk EXCEPT !.pc = "bulk_insert", !.i = 1]
    /\ UNCHANGED <<store, create, writes, resp, kvars, gvars>>

\* bulk_add_knowledge: one Knowledge row per item
bulk_insert ==
    /\ resp = NoResp
    /\ addk.pc = "bulk_insert"
    /\ LET k == addk.knowledge_data[addk.i]
       IN addk' =
            IF addk.i > Len(addk.knowledge_data) THEN [addk EXCEPT !.pc = "bulk_commit"]
            ELSE [addk EXCEPT !.i = addk.i + 1,
                    !.stagedK = Append(addk.stagedK,
                                       [datainstance_id |-> addk.datainstance_id, url |-> k.url,
                                        content |-> k.content, call |-> addk.call])]
    /\ UNCHANGED <<store, create, writes, resp, kvars, gvars>>

\* bulk_add_knowledge: the unit commits; line 223 returns the rows
bulk_commit ==
    /\ resp = NoResp
    /\ addk.pc = "bulk_commit"
    /\ knowledge' = knowledge \o addk.stagedK
    /\ addk' = [addk EXCEPT !.pc = "done", !.status = 200]
    /\ UNCHANGED <<dataInstances, images, create, writes, resp, kvars, gvars>>

\* ------------------------------------------------------------ the service
InstanceIdInputs == 1..(MaxWrites + 2)

\* the store holds one DataInstance of p1 with a Knowledge row and an Image,
\* written by an earlier request (call 0)
Init == /\ dataInstances = <<[id |-> 1, pet_id |-> "p1", call |-> 0]>>
        /\ knowledge = <<[datainstance_id |-> 1, url |-> None, content |-> Some(<<"a">>),
                          call |-> 0]>>
        /\ images = <<[datainstance_id |-> 1, image_url |-> "http://x/i.png", call |-> 0]>>
        /\ create = CreateIdle
        /\ addk = AddkIdle
        /\ writes = 0
        /\ resp = NoResp
        /\ KIdle
        /\ GIdle

Next ==
    \/ \E pet_id \in Pets, kl \in KnowledgeLists, urls \in ImageUrlLists :
           create_datainstance(pet_id, kl, urls)
    \/ ccd_insert_instance
    \/ ccd_insert_knowledge
    \/ ccd_insert_images
    \/ ccd_commit
    \/ \E id \in InstanceIdInputs, payload \in Lists(KnowledgeCreate, MaxBatch) :
           add_knowledge(id, payload)
    \/ ak_validate
    \/ bulk_check
    \/ bulk_insert
    \/ bulk_commit
    \/ \E pet_id \in PetIds : ExportPetData(pet_id)
    \/ \E id \in InstanceIdInputs : GetDataInstance(id)
    \/ Respond

Spec == Init /\ [][Next]_vars

\* ------------------------------------------------------ the read routes
ListLimitInputs == {ListLimitGe - 1, ListLimitLe, ListLimitLe + 1} \cup 1..MaxListed
OffsetInputs == (OffsetGe - 1)..MaxListed

\* stores of up to MaxListed instances, each of some pet; instance i carries
\* i % 3 Knowledge rows and i % 2 Image rows
ListedStores == {[i \in 1..Len(owners) |-> [id |-> i, pet_id |-> owners[i], call |-> 0]] :
                    owners \in Lists(Pets, MaxListed)}

RECURSIVE ListedKnowledge(_)
ListedKnowledge(n) ==
    IF n = 0 THEN <<>>
    ELSE ListedKnowledge(n - 1)
         \o [j \in 1..(n % 3) |-> [datainstance_id |-> n, url |-> Some("http://x/"),
                                   content |-> IF j = 1 THEN None ELSE Some(<<"a">>),
                                   call |-> 0]]

RECURSIVE ListedImages(_)
ListedImages(n) ==
    IF n = 0 THEN <<>>
    ELSE ListedImages(n - 1)
         \o [j \in 1..(n % 2) |-> [datainstance_id |-> n, image_url |-> "http://x/i.png",
                                   call |-> 0]]

LInit == /\ dataInstances \in ListedStores
         /\ knowledge = ListedKnowledge(Len(dataInstances))
         /\ images = ListedImages(Len(dataInstances))
         /\ create = CreateIdle
         /\ addk = AddkIdle
         /\ writes = 0
         /\ resp = NoResp
         /\ KIdle
         /\ GIdle

LNext ==
    \/ \E pet_id \in PetIds : GetPet(pet_id)
    \/ \E pet_id \in PetIds : ExportPetData(pet_id)
    \/ \E id \in 1..(MaxListed + 1) : GetDataInstance(id)
    \/ \E pet_id \in PetIds, limit \in ListLimitInputs, offset \in OffsetInputs :
           ListPetInstances(pet_id, limit, offset)
    \/ Respond

SpecRead == LInit /\ [][LNext]_vars

\* -------------------------------------------------------- semantic search
\* Similarities and thresholds are in tenths: 7 is 0.7, 10 is 1.0.
PetOwner == [p \in Pets |-> IF p = "p1" THEN "w1" ELSE "w2"]
Wallets == {"w1", "w2", "w0"}     \* w0 owns no pet

\* the external embed(text) -> vector, and the store's similarity of two vectors
Queries == {"near", "far"}
embed(q) == IF q = "near" THEN 0 ELSE 2
Distance(a, b) == IF a < b THEN b - a ELSE a - b
Similarity(a, b) == CASE Distance(a, b) = 0 -> 10
                      [] Distance(a, b) = 1 -> 7
                      [] OTHER -> 3

PetOfInstance(id) == LET Mine(r) == r.id = id
                         found == SelectSeq(VisibleInstances, Mine)
                     IN IF found = <<>> THEN None ELSE Some(found[1].pet_id)

\* candidate rows of each scope
AllKnowledge == {VisibleKnowledge[n] : n \in 1..Len(VisibleKnowledge)}
PetKnowledge(pet_id) == {r \in AllKnowledge : PetOfInstance(r.datainstance_id) = Some(pet_id)}
UserKnowledge(wallet) == {r \in AllKnowledge :
                            \E p \in Pets : /\ PetOwner[p] = wallet
                                            /\ PetOfInstance(r.datainstance_id) = Some(p)}

Scored(r, q) == [id |-> r.id, datainstance_id |-> r.datainstance_id,
                 similarity |-> Similarity(embed(q), Val(r.embedding))]

IsDescending(l) == \A i \in 1..(Len(l) - 1) : l[i].similarity >= l[i + 1].similarity

\* every listing of the set S as a sequence without repetition
Orderings(S) == {l \in [1..Cardinality(S) -> S] : \A i, j \in DOMAIN l : i # j => l[i] # l[j]}

\* the rankings the store may return: rows that have an embedding and reach the
\* threshold, by descending similarity (ties in any order), cut at limit
Matches(candidates, q, threshold) ==
    {Scored(r, q) : r \in {c \in candidates : ~IsNone(c.embedding)
                                               /\ Similarity(embed(q), Val(c.embedding)) >= threshold}}

Rankings(candidates, q, limit, threshold) ==
    {SubSeq(l, 1, Min(limit, Len(l))) :
        l \in {o \in Orderings(Matches(candidates, q, threshold)) : IsDescending(o)}}

\* what a gateway search call can do: fail because the embedding provider is not
\* configured (before any embedding or store call), or return a ranking
GatewaySearch(handle, candidates, q, limit, threshold) ==
    IF IsNone(handle.openai_key)
    THEN {[raised |-> e, rows |-> <<>>, embed_called |-> FALSE, store_called |-> FALSE] :
             e \in {"ValueError", "Exception"}}
    ELSE {[raised |-> "", rows |-> l, embed_called |-> TRUE, store_called |-> TRUE] :
             l \in Rankings(candidates, q, limit, threshold)}

\* lines 274-283, 295-305, 317-327: ValueError is a 400, anything else a 500
SearchReply(out) ==
    [status |-> IF out.raised = "" THEN 200 ELSE IF out.raised = "ValueError" THEN 400 ELSE 500,
     detail |-> out.raised, body |-> IF out.raised = "" THEN Some(out.rows) ELSE None,
     embed_called |-> out.embed_called, store_called |-> out.store_called]

Rejected == [status |-> 422, detail |-> "validation", body |-> None,
             embed_called |-> FALSE, store_called |-> FALSE]

\* lines 266-283: limit Query(20, ge=1, le=100), similarity_threshold Query(0.7, ge=0.0, le=1.0)
semantic_search_global(handle, q, limit, threshold) ==
    IF limit < SearchLimitGe \/ limit > SearchLimitLe
       \/ threshold < ThresholdGe \/ threshold > ThresholdLe
    THEN {Rejected}
    ELSE {SearchReply(out) : out \in GatewaySearch(handle, AllKnowledge, q, limit, threshold)}

\* lines 286-305
semantic_search_pet_no_le(handle, pet_id, q, limit, threshold) ==
    IF limit < SearchLimitGe \/ limit > SearchLimitLe \/ threshold < ThresholdGe
    THEN {Rejected}
    ELSE {SearchReply(out) :
             out \in GatewaySearch(handle, PetKnowledge(pet_id), q, limit, threshold)}

semantic_search_pet(handle, pet_id, q, limit, threshold) ==
    IF limit < SearchLimitGe \/ limit > SearchLimitLe
       \/ threshold < ThresholdGe \/ threshold > ThresholdLe
    THEN {Rejected}
    ELSE {SearchReply(out) :
             out \in GatewaySearch(handle, PetKnowledge(pet_id), q, limit, threshold)}

\* lines 308-327
semantic_search_user_default_threshold(handle, wallet, q, limit, threshold) ==
    IF limit < SearchLimitGe \/ limit > SearchLimitLe
       \/ threshold < ThresholdGe \/ threshold > ThresholdLe
    THEN {Rejected}
    ELSE {SearchReply(out) :
             out \in GatewaySearch(handle, UserKnowledge(wallet), q, limit, DefaultThreshold)}

semantic_search_user(handle, wallet, q, limit, threshold) ==
    IF limit < SearchLimitGe \/ limit > SearchLimitLe
       \/ threshold < ThresholdGe \/ threshold > ThresholdLe
    THEN {Rejected}
    ELSE {SearchReply(out) :
             out \in GatewaySearch(handle, UserKnowledge(wallet), q, limit, threshold)}

SearchResponse(op, scope, q, limit, threshold, r) ==
    [op |-> op, arg |-> [scope |-> scope, q |-> q, limit |-> limit, threshold |-> threshold],
     status |-> r.status, detail |-> r.detail, body |-> r.body,
     embed_called |-> r.embed_called, store_called |-> r.store_called]

SemanticSearchGlobal(q, limit, threshold) ==
    /\ resp = NoResp
    /\ \E r \in semantic_search_global(Val(instance), q, limit, threshold) :
           resp' = SearchResponse("semantic_search_global", "", q, limit, threshold, r)
    /\ UNCHANGED <<store, create, addk, writes, kvars, gvars>>

SemanticSearchPet(pet_id, q, limit, threshold) ==
    /\ resp = NoResp
    /\ \E r \in semantic_search_pet(Val(instance), pet_id, q, limit, threshold) :
           resp' = SearchResponse("semantic_search_pet", pet_id, q, limit, threshold, r)
    /\ UNCHANGED <<store, create, addk, writes, kvars, gvars>>

SemanticSearchUser(wallet, q, limit, threshold) ==
    /\ resp = NoResp
    /\ \E r \in semantic_search_user(Val(instance), wallet, q, limit, threshold) :
           resp' = SearchResponse("semantic_search_user", wallet, q, limit, threshold, r)
    /\ UNCHANGED <<store, create, addk, writes, kvars, gvars>>

SearchLimitInputs == {SearchLimitGe - 1, 1, 2, SearchLimitLe, SearchLimitLe + 1}
ThresholdInputs == {ThresholdGe - 1, ThresholdGe, 5, ThresholdLe, ThresholdLe + 1}
EmbeddingInputs == {None, Some(0), Some(1), Some(2)}

\* stores of up to MaxRows Knowledge rows, alternating between one instance of
\* each pet, every row with or without a computed embedding
SearchedInstances == <<[id |-> 1, pet_id |-> "p1", call |-> 0],
                       [id |-> 2, pet_id |-> "p2", call |-> 0]>>
SearchedStores == {[i \in 1..Len(embs) |->
                        [id |-> i, datainstance_id |-> 2 - (i % 2), url |-> None,
                         content |-> Some(<<"a">>), call |-> 0, embedding |-> embs[i]]] :
                    embs \in Lists(EmbeddingInputs, MaxRows)}

QInit == /\ dataInstances = SearchedInstances
         /\ knowledge \in SearchedStores
         /\ images = <<>>
         /\ create = CreateIdle
         /\ addk = AddkIdle
         /\ writes = 0
         /\ resp = NoResp
         /\ KIdle
         /\ environ = [SUPABASE_URL |-> Some("v"), SUPABASE_KEY |-> Some("v"),
                       OPENAI_API_KEY |-> None]
         /\ \E k \in OpenAiValues : /\ instance = Some(Supabase(1, k))
                                    /\ firstInstance = instance
         /\ constructed = 1
         /\ thread = [t \in Threads |-> ThreadIdle]
         /\ calls = 0

QNext ==
    \/ \E q \in Queries, limit \in SearchLimitInputs, threshold \in ThresholdInputs :
           SemanticSearchGlobal(q, limit, threshold)
    \/ \E pet_id \in PetIds, q \in Queries, limit \in SearchLimitInputs,
          threshold \in ThresholdInputs :
           SemanticSearchPet(pet_id, q, limit, threshold)
    \/ \E wallet \in Wallets, q \in Queries, limit \in SearchLimitInputs,
          threshold \in ThresholdInputs :
           SemanticSearchUser(wallet, q, limit, threshold)
    \/ Respond

SpecSearch == QInit /\ [][QNext]_vars

\* ------------------------------------------------ Knowledge construction
UrlInputs == {None, Some(""), Some(" "), Some("http://x/")}
ContentInputs == {None} \cup {Some(t) : t \in Texts(MaxLen)}

KInit == /\ kUrl \in UrlInputs
         /\ kContent \in ContentInputs
         /\ kResult = "pending"
         /\ GIdle
         /\ SIdle

NewKnowledge == /\ kResult = "pending"
                /\ kResult' = IF KnowledgeRaises(kUrl, kContent) THEN "ValueError" ELSE "ok"
                /\ UNCHANGED <<kUrl, kContent, gvars, svars>>

KNext == NewKnowledge

SpecKnowledge == KInit /\ [][KNext]_vars

\* ================================================================ claims
\* the url/content rule as the specification words it, on any item with a url
\* and a content field
Blank(c) == IsNone(c) \/ Strip(Val(c)) = <<>>
InvalidItem(k) == IsNone(k.url) /\ Blank(k.content)
HasInvalidItem(l) == \E n \in 1..Len(l) : InvalidItem(l[n])
RowsOfCall(rows, c) == {n \in 1..Len(rows) : rows[n].call = c}

\* C1: a create_datainstance call whose knowledge_list holds an invalid item (at
\* any position) fails, leaves no DataInstance, Knowledge or Image row of that
\* call in the store, and the pet's export shows the instances it showed before.
C1_CreateAllOrNothing ==
    (create.pc = "done" /\ HasInvalidItem(create.payload)) =>
        /\ create.status = 500
        /\ RowsOfCall(dataInstances, create.call) = {}
        /\ RowsOfCall(knowledge, create.call) = {}
        /\ RowsOfCall(images, create.call) = {}
        /\ route_export_pet_data(create.pet_id).status = 200
        /\ InstanceIds(Val(route_export_pet_data(create.pet_id).body).instances) = create.before

C1_Witness ==
    /\ create.pc = "done"
    /\ Len(create.payload) = 2
    /\ ~InvalidItem(create.payload[1])
    /\ InvalidItem(create.payload[2])
    /\ ~IsNone(create.image_urls)
    /\ create.before # <<>>
    /\ create.status = 500

\* C2: add_knowledge checks every item of the batch before anything is written:
\* the gateway is called, and rows of the batch exist, only when no item is
\* invalid; a batch with an invalid item ends in a 400 with none of its rows written.
C2_BulkAddValidatesFirst ==
    /\ (addk.gateway_called \/ addk.stagedK # <<>> \/ RowsOfCall(knowledge, addk.call) # {})
           => ~HasInvalidItem(addk.payload)
    /\ (addk.pc = "done" /\ HasInvalidItem(addk.payload))
           => (addk.status = 400 /\ RowsOfCall(knowledge, addk.call) = {})
    /\ (addk.pc = "done" /\ ~HasInvalidItem(addk.payload))
           => (addk.status = 200
               /\ Cardinality(RowsOfCall(knowledge, addk.call)) = Len(addk.payload))

C2_Witness ==
    /\ addk.pc = "done"
    /\ Len(addk.payload) = 2
    /\ ~InvalidItem(addk.payload[1])
    /\ InvalidItem(addk.payload[2])
    /\ addk.status = 400

\* C3 as stated: construction raises exactly when url is None and content is
\* None or blank after strip.
C3_RaisesIffUrlNone ==
    kResult \in {"ok", "ValueError"} =>
        (kResult = "ValueError" <=> (IsNone(kUrl) /\ Blank(kContent)))

\* C3 amended: construction raises exactly when url is None or the empty string
\* and content is None or blank after strip.
C3_RaisesIffNoUrlNoContent ==
    kResult \in {"ok", "ValueError"} =>
        (kResult = "ValueError" <=> ((IsNone(kUrl) \/ Val(kUrl) = "") /\ Blank(kContent)))

C3_Witness ==
    /\ kResult = "ValueError"
    /\ kUrl = Some("")
    /\ ~IsNone(kContent)
    /\ Len(Val(kContent)) >= 2

\* C4: the Supabase constructor runs at most once, and every successful
\* get_storage call returns that one handle.
C4_ConstructedOnce ==
    /\ constructed <= 1
    /\ \A t \in Threads : thread[t].result = "ok" => thread[t].ret = firstInstance

\* C5: a read of an instance never shows part of a write call's rows: an instance
\* created by create_datainstance is shown with all of the call's Knowledge and
\* Image rows or not at all, and the rows of an add_knowledge batch are shown all
\* or none.
ShownTrees ==
    IF resp.op = "get_datainstance" /\ resp.status = 200 THEN {Val(resp.body)}
    ELSE IF resp.op = "export_pet_data" /\ resp.status = 200
    THEN {Val(resp.body).instances[i] : i \in DOMAIN Val(resp.body).instances}
    ELSE {}

C5_NoPartialChildren ==
    \A tree \in ShownTrees :
        /\ (create.pc # "idle" /\ tree.call = create.call) =>
               /\ Cardinality(RowsOfCall(tree.knowledge, create.call)) = Len(create.payload)
               /\ Cardinality(RowsOfCall(tree.images, create.call))
                      = Len(ListOf(create.image_urls))
        /\ (addk.pc # "idle" /\ tree.id = addk.datainstance_id) =>
               Cardinality(RowsOfCall(tree.knowledge, addk.call)) \in {0, Len(addk.payload)}

C5_Witness ==
    /\ resp.op = "export_pet_data"
    /\ resp.arg = create.pet_id
    /\ resp.status = 200
    /\ create.pc = "insert_images"
    /\ Len(create.stagedK) = 2
    /\ Len(create.stagedI) = 1

\* C6: a successful semantic search of any scope returns rows in non-increasing
\* similarity, each at or above the supplied threshold, at most limit of them,
\* and none whose stored row has no embedding.
IsSearch == resp.op \in {"semantic_search_global", "semantic_search_pet", "semantic_search_user"}

C6_SearchRanking ==
    (IsSearch /\ resp.status = 200) =>
        LET rows == Val(resp.body)
        IN /\ \A i \in 1..Len(rows), j \in 1..Len(rows) :
                  i < j => rows[i].similarity >= rows[j].similarity
           /\ \A i \in 1..Len(rows) : rows[i].similarity >= resp.arg.threshold
           /\ Len(rows) <= resp.arg.limit
           /\ \A i \in 1..Len(rows) :
                  \E n \in 1..Len(knowledge) : /\ knowledge[n].id = rows[i].id
                                               /\ ~IsNone(knowledge[n].embedding)

C6_Witness ==
    /\ resp.op = "semantic_search_user"
    /\ resp.status = 200
    /\ resp.arg.threshold = 5
    /\ Len(Val(resp.body)) = 2
    /\ Val(resp.body)[1].similarity > Val(resp.body)[2].similarity
    /\ \E n \in 1..Len(knowledge) : IsNone(knowledge[n].embedding)

\* C7: a semantic search of any scope with a threshold outside [0, 1] is rejected
\* with a validation error before any embedding or store call; the thresholds
\* 0.0 and 1.0 are not rejected.
C7_ThresholdValidated ==
    IsSearch =>
        /\ (resp.arg.threshold < 0 \/ resp.arg.threshold > 10) =>
               (resp.status = 422 /\ ~resp.embed_called /\ ~resp.store_called)
        /\ (resp.arg.threshold \in {0, 10} /\ resp.arg.limit \in 1..100) => resp.status # 422

C7_Witness ==
    /\ resp.op = "semantic_search_pet"
    /\ resp.arg.threshold = 11
    /\ resp.arg.limit = 2
    /\ resp.status = 422
    /\ ~IsNone(Val(instance).openai_key)
    /\ knowledge # <<>>

\* C8: for every pet and limit L, the pages (L, offset 0) and (L, offset L) share
\* no instance and together are the first 2L elements of one ordering of the
\* pet's instances.
PageIds(page) == {page[i].id : i \in DOMAIN page}
RowsOfPet(pet_id) == {dataInstances[n] : n \in {m \in 1..Len(dataInstances) :
                                                    dataInstances[m].pet_id = pet_id}}

C8_PagesConsistent ==
    \A pet_id \in PetIds, L \in (1..(Len(dataInstances) + 1)) \cup {1000} :
        LET first == route_list_pet_instances(pet_id, L, 0)
            second == route_list_pet_instances(pet_id, L, L)
        IN /\ first.status = 200
           /\ second.status = 200
           /\ PageIds(Val(first.body)) \cap PageIds(Val(second.body)) = {}
           /\ \E order \in Orderings(RowsOfPet(pet_id)) :
                  Val(first.body) \o Val(second.body) = SubSeq(order, 1, Min(2 * L, Len(order)))

C8_Witness ==
    /\ resp.op = "list_pet_instances"
    /\ resp.status = 200
    /\ resp.arg[2] = 2
    /\ resp.arg[3] = 2
    /\ Len(Val(resp.body)) = 2

\* C9: get_pet, export_pet_data and get_datainstance answer an identifier that
\* does not exist with 'not found' and change nothing in the store; for a pet
\* that exists export_pet_data returns every instance of the pet, each with every
\* one of its Knowledge and Image rows.
FullTree(body, pet_id) ==
    /\ body.pet.id = pet_id
    /\ Len(body.instances) = Cardinality(RowsOfPet(pet_id))
    /\ \A row \in RowsOfPet(pet_id) :
           \E i \in DOMAIN body.instances :
               /\ body.instances[i].id = row.id
               /\ \A n \in 1..Len(knowledge) :
                      knowledge[n].datainstance_id = row.id =>
                          \E j \in DOMAIN body.instances[i].knowledge :
                              body.instances[i].knowledge[j] = knowledge[n]
               /\ \A n \in 1..Len(images) :
                      images[n].datainstance_id = row.id =>
                          \E j \in DOMAIN body.instances[i].images :
                              body.instances[i].images[j] = images[n]

C9_AbsenceIsNormal ==
    [][(resp = NoResp /\ resp' # NoResp) =>
          /\ store' = store
          /\ (resp'.op = "get_pet" /\ resp'.arg \notin Pets) =>
                 (resp'.status = 404 /\ resp'.detail = "Pet not found")
          /\ (resp'.op = "get_pet" /\ resp'.arg \in Pets) => resp'.status = 200
          /\ (resp'.op = "export_pet_data" /\ resp'.arg \notin Pets) =>
                 (resp'.status = 404 /\ resp'.detail = "Pet not found")
          /\ (resp'.op = "export_pet_data" /\ resp'.arg \in Pets) =>
                 (resp'.status = 200 /\ FullTree(Val(resp'.body), resp'.arg))
          /\ (resp'.op = "get_datainstance"
                /\ \A n \in 1..Len(dataInstances) : dataInstances[n].id # resp'.arg) =>
                 (resp'.status = 404 /\ resp'.detail = "DataInstance not found")
          /\ (resp'.op = "get_datainstance"
                /\ \E n \in 1..Len(dataInstances) : dataInstances[n].id = resp'.arg) =>
                 resp'.status = 200
      ]_vars

C9_Witness ==
    /\ resp.op = "export_pet_data"
    /\ resp.arg = "p0"
    /\ resp.status = 404
    /\ Len(knowledge) >= 3
    /\ Len(images) >= 2

\* C10: a get_storage call that reads SUPABASE_URL or SUPABASE_KEY unset ends in
\* the RuntimeError without constructing a handle, and every successful call
\* returns the first handle that was cached.
C10_ConfigCheckedFirst ==
    \A t \in Threads :
        /\ (thread[t].pc = "done" /\ (Falsy(thread[t].url) \/ Falsy(thread[t].key))) =>
               (thread[t].result = "RuntimeError" /\ IsNone(thread[t].made))
        /\ thread[t].result = "ok" => thread[t].ret = firstInstance

\* the part of C10 about the order of the checks: an unset SUPABASE_URL or
\* SUPABASE_KEY fails the call whatever is cached, and the failing call
\* constructs nothing and leaves the cached handle as it was
ConfigFailureLeavesCache ==
    [][\A t \in Threads :
          (thread[t].pc = "check_env" /\ thread'[t].pc # "check_env"
             /\ (Falsy(thread[t].url) \/ Falsy(thread[t].key))) =>
              /\ thread'[t].result = "RuntimeError"
              /\ instance' = instance
              /\ constructed' = constructed
      ]_vars

====
